---- MODULE Spec2Model ----
(***************************************************************************)
(* Model of the medication question-answering backend:                     *)
(*   medication_processor.py  MedicationProcessor (table, indexes, search) *)
(*   question_answering.py    QuestionAnsweringEngine (analysis, answers)  *)
(*   app.py                   the HTTP handlers that call them             *)
(*   enhanced_nlp.py          MedicationNLP.preprocess_text                *)
(* Text is modelled character by character: a string is a sequence of      *)
(* one-character strings, so that lower(), substring tests, word           *)
(* boundaries and numeric parsing are computed as the code computes them.  *)
(***************************************************************************)
EXTENDS Integers, Sequences, FiniteSets, TLC

\* ------------------------------------------------------------------ bounds
\* Number of load_data calls in one run.
MaxLoads == 2
\* Largest limit argument tried by get_medications (0..MaxLimit, and None).
MaxLimit == 2

\* ------------------------------------------------------------- characters
\* The characters used, in code point order (Python compares and sorts
\* strings by code point).
CharOrder ==
  << "\t", " ", "'", ".", "/",
     "0", "1", "2", "3", "4", "5", "6", "7", "8", "9", "?",
     "A", "B", "C", "D", "E", "F", "G", "H", "I", "J", "K", "L", "M",
     "N", "O", "P", "Q", "R", "S", "T", "U", "V", "W", "X", "Y", "Z", "_",
     "a", "b", "c", "d", "e", "f", "g", "h", "i", "j", "k", "l", "m",
     "n", "o", "p", "q", "r", "s", "t", "u", "v", "w", "x", "y", "z" >>

Ord(c) == CHOOSE i \in 1..Len(CharOrder) : CharOrder[i] = c

UpperChars == { CharOrder[i] : i \in 17..42 }
LowerChars == { CharOrder[i] : i \in 44..69 }
DigitChars == { CharOrder[i] : i \in 6..15 }
SpaceChars == { "\t", " " }

\* str.lower() on one character: an upper-case letter moves to its
\* lower-case letter, every other character stays.
LowerChar(c) == IF c \in UpperChars THEN CharOrder[Ord(c) + 27] ELSE c

\* str.lower()
Lower(s) == [i \in 1..Len(s) |-> LowerChar(s[i])]

\* Python's  sub in s  on strings.
Contains(sub, s) ==
  \E i \in 0..(Len(s) - Len(sub)) : SubSeq(s, i + 1, i + Len(sub)) = sub

\* Python's  a < b  on strings (code point order, a proper prefix is less).
RECURSIVE StrLess(_, _)
StrLess(a, b) ==
  IF b = << >> THEN FALSE
  ELSE IF a = << >> THEN TRUE
  ELSE IF a[1] # b[1] THEN Ord(a[1]) < Ord(b[1])
  ELSE StrLess(Tail(a), Tail(b))

\* str(idx) for a row position.
RECURSIVE Str(_)
Str(n) ==
  IF n < 10 THEN << CharOrder[6 + n] >>
  ELSE Str(n \div 10) \o << CharOrder[6 + (n % 10)] >>

\* ---------------------------------------------------------- Python dicts
\* A dict is the sequence of its items [k, v] in insertion order.
DictHas(d, k) == \E i \in 1..Len(d) : d[i].k = k

DictGet(d, k) == d[CHOOSE i \in 1..Len(d) : d[i].k = k].v

\* d[k] = v : an existing key keeps its position, a new key goes last.
DictSet(d, k, v) ==
  IF DictHas(d, k)
  THEN [i \in 1..Len(d) |-> IF d[i].k = k THEN [k |-> k, v |-> v] ELSE d[i]]
  ELSE Append(d, [k |-> k, v |-> v])

\* list(d.values())
DictValues(d) == [i \in 1..Len(d) |-> d[i].v]

\* range(n) as 1..n, the positions of a sequence of n elements.
Range(n) == [i \in 1..n |-> i]

\* ------------------------------------------------------------ the dataset
\* One CSV row: the cells of the columns the processor reads.  A blank
\* cell is the empty string (what fillna('') leaves, medication_processor.py
\* line 55).  Side_Effect holds the cells Side_Effect_1, Side_Effect_2, ...
Row(tn, gn, cat, price, ind, form, strength, se) ==
  [ Trade_Name |-> tn, Generic_Name |-> gn, Category |-> cat, Price |-> price,
    Indications_for_Use |-> ind, Dosage_Form |-> form, Strength |-> strength,
    Side_Effect |-> se ]

RowPanadol ==
  Row(<<"P","a","n","a","d","o","l">>, <<"P","a","r","a","c","e","t","a","m","o","l">>, <<"A","n","a","l","g","e","s","i","c">>, <<"1","5">>,
      <<"F","o","r"," ","r","e","l","i","e","f"," ","o","f"," ","p","a","i","n"," ","a","n","d"," ","f","e","v","e","r">>, <<"T","a","b","l","e","t">>, <<"5","0","0","m","g">>,
      << <<"N","a","u","s","e","a">>, << >>, <<"R","a","s","h">> >>)

RowLipitor ==
  Row(<<"L","i","p","i","t","o","r">>, <<"A","t","o","r","v","a","s","t","a","t","i","n">>, <<"C","a","r","d","i","o">>, <<"2","0">>,
      <<"H","i","g","h"," ","c","h","o","l","e","s","t","e","r","o","l">>, <<"T","a","b","l","e","t">>, << >>, << >>)

RowAdol ==
  Row(<<"A","d","o","l">>, <<"P","a","r","a","c","e","t","a","m","o","l">>, <<"A","n","a","l","g","e","s","i","c">>, <<"c","a","l","l">>,
      <<"H","e","a","d","a","c","h","e"," ","a","n","d"," ","p","a","i","n">>, << >>, << >>, << <<"N","a","u","s","e","a">> >>)

RowZyrtec ==
  Row(<<"Z","y","r","t","e","c">>, <<"C","e","t","i","r","i","z","i","n","e">>, <<"A","l","l","e","r","g","y">>, <<"1","0">>,
      <<"A","l","l","e","r","g","i","e","s">>, <<"T","a","b","l","e","t">>, <<"1","0","m","g">>, << >>)

\* Rows of a file whose Trade_Name column holds only numbers.
RowCode100 ==
  Row(<<"1","0","0">>, <<"I","b","u","p","r","o","f","e","n">>, <<"A","n","a","l","g","e","s","i","c">>, <<"3","0">>,
      <<"P","a","i","n">>, << >>, << >>, << >>)

RowCode200 ==
  Row(<<"2","0","0">>, <<"A","s","p","i","r","i","n">>, <<"A","n","a","l","g","e","s","i","c">>, <<"5">>,
      <<"F","e","v","e","r">>, << >>, << >>, << >>)

\* A row as the file has it: two spaces inside the trade name, and a blank
\* Category cell.
RowPanadolExtra ==
  Row(<<"P","a","n","a","d","o","l"," "," ","E","x","t","r","a">>, <<"P","a","r","a","c","e","t","a","m","o","l">>, << >>, <<"2","5">>,
      <<"P","a","i","n">>, << >>, << >>, << >>)

\* A row of a file that has no Category and no Price column: the cells of
\* a column that is absent are written blank here, and the source's
\* missing field names the column.
RowZyrtecBare ==
  Row(<<"Z","y","r","t","e","c">>, <<"C","e","t","i","r","i","z","i","n","e">>, << >>, << >>,
      <<"A","l","l","e","r","g","i","e","s">>, << >>, << >>, << >>)

\* Six rows for one indication; the first has six side-effect cells.
RowFlu(tn, se) ==
  Row(tn, <<"O","s","e","l","t","a","m","i","v","i","r">>, <<"A","n","t","i","v","i","r","a","l">>, <<"4","0">>, <<"F","l","u">>, << >>, << >>, se)

RowFluza ==
  RowFlu(<<"F","l","u","z","a">>, << <<"R","a","s","h">>, <<"I","t","c","h">>, <<"C","o","u","g","h">>, <<"G","a","s">>, <<"A","c","n","e">>, <<"H","i","v","e","s">> >>)

FluRows ==
  << RowFluza, RowFlu(<<"F","l","u","b","o">>, << >>), RowFlu(<<"F","l","u","c","a">>, << >>),
     RowFlu(<<"F","l","u","d","o">>, << >>), RowFlu(<<"F","l","u","m","a">>, << >>), RowFlu(<<"F","l","u","n","o">>, << >>) >>

\* A row whose Trade_Name and Generic_Name cells are both blank.
RowNameless ==
  Row(<< >>, << >>, <<"A","n","a","l","g","e","s","i","c">>, <<"1","2">>, <<"P","a","i","n">>, << >>, << >>, << >>)

\* The sources load_data is called with: a readable CSV file with its
\* rows and the columns it lacks, or a path or URL that cannot be read.
Sources ==
  << [ readable |-> TRUE,  rows |-> << RowPanadol, RowLipitor, RowAdol >>, missing |-> {} ],
     [ readable |-> TRUE,  rows |-> << RowZyrtec >>, missing |-> {} ],
     [ readable |-> TRUE,  rows |-> << RowCode100, RowCode200 >>, missing |-> {} ],
     [ readable |-> TRUE,  rows |-> << >>, missing |-> {} ],
     [ readable |-> FALSE, rows |-> << >>, missing |-> {} ],
     [ readable |-> TRUE,  rows |-> << RowPanadolExtra >>, missing |-> {} ],
     [ readable |-> TRUE,  rows |-> << RowZyrtecBare >>,
       missing |-> { "Category", "Price" } ],
     [ readable |-> TRUE,  rows |-> FluRows, missing |-> {} ],
     [ readable |-> TRUE,  rows |-> << RowNameless >>, missing |-> {} ] >>

\* -------------------------------------------------- pandas on the columns
IsNumeric(cell) == cell # << >> /\ \A i \in 1..Len(cell) : cell[i] \in DigitChars

\* int() of a string of digits.
RECURSIVE ParseInt(_)
ParseInt(cell) ==
  IF cell = << >> THEN 0
  ELSE 10 * ParseInt(SubSeq(cell, 1, Len(cell) - 1)) + (Ord(cell[Len(cell)]) - 6)

\* pd.to_numeric(cell, errors='coerce'): the number, or NaN.
ToNumeric(cell) ==
  IF IsNumeric(cell) THEN [nan |-> FALSE, val |-> ParseInt(cell)]
  ELSE [nan |-> TRUE, val |-> 0]

\* pd.read_csv gives a column a numeric dtype when every cell that is not
\* blank parses as a number; its values are then numbers, not strings.
ColumnIsNumeric(rows, col) ==
  /\ \E i \in 1..Len(rows) : rows[i][col] # << >>
  /\ \A i \in 1..Len(rows) : rows[i][col] = << >> \/ IsNumeric(rows[i][col])

\* sorted(set of strings)
SortedStrings(S) ==
  [k \in 1..Cardinality(S) |->
     CHOOSE x \in S : Cardinality({y \in S : StrLess(y, x)}) = k - 1]

\* sorted(set of numbers), each shown by its digits
SortedNumbers(S) ==
  [k \in 1..Cardinality(S) |->
     Str(CHOOSE x \in S : Cardinality({y \in S : y < x}) = k - 1)]

\* ---------------------------------------------------- MedicationProcessor
\* The processor's fields as one record p:
\*   df                 [isNone, rows, cleaned, missing]; cleaned:
\*                      _clean_data has run on this frame; missing: the
\*                      columns the frame does not have
\*   medications_dict   dict  str(idx) -> medication
\*   categories         list of category values
\*   trade_name_index, generic_name_index   dict  lower-case name -> idx
\*   category_index     dict  lower-case category -> category
NumSideEffectColumns == 9

NewProcessor ==
  [ df                 |-> [isNone |-> TRUE, rows |-> << >>, cleaned |-> FALSE,
                            missing |-> {}],
    medications_dict   |-> << >>,
    categories         |-> << >>,
    trade_name_index   |-> << >>,
    generic_name_index |-> << >>,
    category_index     |-> << >> ]

\* self.df = pd.read_csv(source)
AssignFrame(p, source) ==
  [p EXCEPT !.df = [isNone |-> FALSE, rows |-> source.rows, cleaned |-> FALSE,
                    missing |-> source.missing]]

\* _clean_data: blank cells are already '', a column that is missing is
\* only logged, and Price_Numeric is added when there is a Price column.
CleanData(p) == [p EXCEPT !.df.cleaned = TRUE]

\* 'Price_Numeric' in self.df.columns
HasPriceNumeric(p) == p.df.cleaned /\ "Price" \notin p.df.missing

\* The Category part of _create_indexes; a frame with no Category column
\* skips it and keeps the categories it had.  A numeric Category column
\* raises: sorted() cannot order numbers and '' together, and a number has
\* no lower().
CategoryValues(rows) == { rows[i].Category : i \in 1..Len(rows) }

RECURSIVE IndexCategories(_, _, _)
IndexCategories(index, cats, i) ==
  IF i > Len(cats) THEN index
  ELSE IndexCategories(DictSet(index, Lower(cats[i]), cats[i]), cats, i + 1)

CreateCategoryIndex(p) ==
  LET rows == p.df.rows
      vals == CategoryValues(rows)
  IN  IF "Category" \in p.df.missing THEN [p |-> p, raised |-> FALSE]
      ELSE IF ColumnIsNumeric(rows, "Category")
      THEN IF << >> \in vals
           THEN [p |-> p, raised |-> TRUE]
           ELSE [p |-> [p EXCEPT !.categories =
                          SortedNumbers({ParseInt(v) : v \in vals})],
                 raised |-> TRUE]
      ELSE LET cats == SortedStrings(vals)
           IN  [p |-> [p EXCEPT !.categories = cats,
                                !.category_index =
                                   IndexCategories(p.category_index, cats, 1)],
                raised |-> FALSE]

\* for idx, name in enumerate(column): if notna(name) and name:
\*     index[name.lower()] = idx
RECURSIVE IndexNames(_, _, _, _)
IndexNames(index, rows, col, i) ==
  IF i > Len(rows) THEN index
  ELSE IndexNames(IF rows[i][col] # << >>
                  THEN DictSet(index, Lower(rows[i][col]), i - 1)
                  ELSE index,
                  rows, col, i + 1)

\* In a numeric column the first value that is not blank and not 0 has no
\* lower(): the loop raises there, before it has stored anything.
NameLoopRaises(rows, col) ==
  /\ ColumnIsNumeric(rows, col)
  /\ \E i \in 1..Len(rows) : rows[i][col] # << >> /\ ParseInt(rows[i][col]) # 0

CreateNameIndex(index, rows, col) ==
  IF ColumnIsNumeric(rows, col) THEN index ELSE IndexNames(index, rows, col, 1)

\* _create_indexes: categories, then trade names, then generic names; an
\* exception leaves what was stored before it.
CreateIndexes(p) ==
  LET rows == p.df.rows
      c    == CreateCategoryIndex(p)
      t    == [c.p EXCEPT !.trade_name_index =
                 CreateNameIndex(c.p.trade_name_index, rows, "Trade_Name")]
      g    == [t EXCEPT !.generic_name_index =
                 CreateNameIndex(t.generic_name_index, rows, "Generic_Name")]
  IN  IF c.raised THEN c
      ELSE IF NameLoopRaises(rows, "Trade_Name") THEN [p |-> c.p, raised |-> TRUE]
      ELSE IF NameLoopRaises(rows, "Generic_Name") THEN [p |-> t, raised |-> TRUE]
      ELSE [p |-> g, raised |-> FALSE]

\* The non-empty cells among Side_Effect_1 .. Side_Effect_9.
SideEffects(row) ==
  LET n == IF Len(row.Side_Effect) < NumSideEffectColumns
           THEN Len(row.Side_Effect) ELSE NumSideEffectColumns
  IN  SelectSeq(SubSeq(row.Side_Effect, 1, n), LAMBDA e : e # << >>)

\* The medication object built for row idx (0-based).  SN, quantity,
\* origin and image URL are copied from the row like the other cells and
\* read by no test; they are left out.
Medication(row, idx) ==
  [ id                  |-> Str(idx),
    Trade_Name          |-> row.Trade_Name,
    Strength            |-> row.Strength,
    Dosage_Form         |-> row.Dosage_Form,
    Price               |-> row.Price,
    Generic_Name        |-> row.Generic_Name,
    Category            |-> row.Category,
    Indications_for_Use |-> row.Indications_for_Use,
    Side_Effects        |-> SideEffects(row) ]

RECURSIVE StoreMedications(_, _, _)
StoreMedications(dict, rows, i) ==
  IF i > Len(rows) THEN dict
  ELSE StoreMedications(DictSet(dict, Str(i - 1), Medication(rows[i], i - 1)),
                        rows, i + 1)

\* _create_medications_dict
CreateMedicationsDict(p) ==
  [p EXCEPT !.medications_dict = StoreMedications(p.medications_dict, p.df.rows, 1)]

\* load_data: the processor after the call and the value returned.
LoadData(p, source) ==
  IF ~source.readable THEN [p |-> p, ok |-> FALSE]
  ELSE LET x == CreateIndexes(CleanData(AssignFrame(p, source)))
       IN  IF x.raised THEN [p |-> x.p, ok |-> FALSE]
           ELSE [p |-> CreateMedicationsDict(x.p), ok |-> TRUE]

\* is_data_loaded: self.df is not None and not self.df.empty
IsDataLoaded(p) == ~p.df.isNone /\ Len(p.df.rows) > 0

\* get_medication_count
GetMedicationCount(p) == IF p.df.isNone THEN 0 ELSE Len(p.df.rows)

\* get_categories
GetCategories(p) == p.categories

\* ---------------------------------------------------------- get_statistics
\* The numbers of a sequence in ascending order, repeats kept.
RECURSIVE SortedSeq(_)
SortedSeq(s) ==
  IF s = << >> THEN << >>
  ELSE LET rest == SortedSeq(Tail(s))
           below == SelectSeq(rest, LAMBDA x : x <= s[1])
           above == SelectSeq(rest, LAMBDA x : x > s[1])
       IN  below \o << s[1] >> \o above

RECURSIVE Sum(_)
Sum(s) == IF s = << >> THEN 0 ELSE s[1] + Sum(Tail(s))

\* describe() and median() of Price_Numeric over the values that are not
\* NaN.  The mean is kept as the sum and the count, the median as the two
\* middle values (equal when the count is odd); with no value at all min,
\* max and median are NaN, written << >>.
PriceStatistics(rows) ==
  LET cells == SelectSeq(rows, LAMBDA r : ~ToNumeric(r.Price).nan)
      prices == SortedSeq([i \in 1..Len(cells) |-> ToNumeric(cells[i].Price).val])
      n == Len(prices)
  IN  [ count  |-> n,
        sum    |-> Sum(prices),
        min    |-> IF n = 0 THEN << >> ELSE << prices[1] >>,
        max    |-> IF n = 0 THEN << >> ELSE << prices[n] >>,
        median |-> IF n = 0 THEN << >>
                   ELSE << prices[(n + 1) \div 2], prices[(n + 2) \div 2] >> ]

\* Series.value_counts().to_dict(): each value of the column with the
\* number of rows that have it.
ValueCounts(rows, col) ==
  { [value |-> v, n |-> Cardinality({ i \in 1..Len(rows) : rows[i][col] = v })] :
      v \in { rows[i][col] : i \in 1..Len(rows) } }

\* get_statistics: {} (here << >>) without a frame, else << stats >>.  A
\* part whose column the frame lacks stays {}.  The origin distribution is
\* computed like the dosage-form one from a column no row here carries.
GetStatistics(p) ==
  IF p.df.isNone THEN << >>
  ELSE << [ total_medications |-> Len(p.df.rows),
            total_categories  |-> Len(p.categories),
            price_statistics  |->
              IF HasPriceNumeric(p) THEN << PriceStatistics(p.df.rows) >> ELSE << >>,
            categories_distribution |->
              IF "Category" \in p.df.missing THEN {}
              ELSE ValueCounts(p.df.rows, "Category"),
            dosage_forms_distribution |-> ValueCounts(p.df.rows, "Dosage_Form") ] >>

\* ------------------------------------------------------------ the lookups
\* A Python truth test of an Optional[int] limit: None and 0 are false.
\* A limit is [given, n]; given = FALSE is None.
NoLimit == [given |-> FALSE, n |-> 0]

LimitOf(n) == [given |-> TRUE, n |-> n]

LimitIsTrue(limit) == limit.given /\ limit.n # 0

\* results[:n]
Take(s, n) == SubSeq(s, 1, IF n < Len(s) THEN n ELSE Len(s))

\* The medications of the rows at the given positions (1-based) that
\* medications_dict has under str(idx).
FromDict(p, positions) ==
  LET kept == SelectSeq(positions, LAMBDA i : DictHas(p.medications_dict, Str(i - 1)))
  IN  [k \in 1..Len(kept) |-> DictGet(p.medications_dict, Str(kept[k] - 1))]

\* The search-term test of get_medications on one medication.
TermMatches(search, med) ==
  \/ Contains(search, Lower(med.Trade_Name))
  \/ Contains(search, Lower(med.Generic_Name))
  \/ Contains(search, Lower(med.Category))
  \/ Contains(search, Lower(med.Indications_for_Use))

\* get_medications(search, category, limit)
GetMedications(p, search, category, limit) ==
  IF search = << >> /\ category = << >>
  THEN LET all == DictValues(p.medications_dict)
       IN  IF LimitIsTrue(limit) THEN Take(all, limit.n) ELSE all
  ELSE LET byCategory ==
             IF category # << >>
             THEN IF ~p.df.isNone
                  THEN FromDict(p, SelectSeq(Range(Len(p.df.rows)),
                                  LAMBDA i : p.df.rows[i].Category = category))
                  ELSE << >>
             ELSE DictValues(p.medications_dict)
           byTerm ==
             IF search # << >>
             THEN SelectSeq(byCategory, LAMBDA med : TermMatches(Lower(search), med))
             ELSE byCategory
       IN  IF LimitIsTrue(limit) /\ Len(byTerm) > limit.n
           THEN Take(byTerm, limit.n) ELSE byTerm

\* self.df['Category'] on a frame with no Category column raises KeyError
\* (line 157); get_medications does not catch it.
GetMedicationsRaises(p, search, category) ==
  category # << >> /\ ~p.df.isNone /\ "Category" \in p.df.missing

\* get_medication_by_id: the medication, or None (the empty sequence).
GetMedicationById(p, medication_id) ==
  IF DictHas(p.medications_dict, medication_id)
  THEN << DictGet(p.medications_dict, medication_id) >>
  ELSE << >>

\* self.medications_dict.get(str(idx))
DictLookup(p, idx) == GetMedicationById(p, Str(idx))

\* get_medication_by_name: trade-name index first, then generic-name index.
GetMedicationByName(p, name) ==
  LET name_lower == Lower(name)
  IN  IF DictHas(p.trade_name_index, name_lower)
      THEN DictLookup(p, DictGet(p.trade_name_index, name_lower))
      ELSE IF DictHas(p.generic_name_index, name_lower)
      THEN DictLookup(p, DictGet(p.generic_name_index, name_lower))
      ELSE << >>

\* --------------------------------------------------------- advanced_search
\* Series.str.contains(pat, case=False, na=False): pat is a regular
\* expression searched anywhere in the cell, ignoring case.  The patterns
\* used here are made of literal characters and '.', which stands for any
\* character.
RegexMatchesAt(pat, s, i) ==
  \A k \in 1..Len(pat) :
     pat[k] = "." \/ LowerChar(pat[k]) = LowerChar(s[i + k - 1])

StrContains(s, pat) ==
  \E i \in 1..(Len(s) - Len(pat) + 1) : RegexMatchesAt(pat, s, i)

\* A criterion is [given, val]: given = FALSE is a key that is absent (or,
\* for a price, None).
Absent == [given |-> FALSE, val |-> << >>]

AbsentPrice == [given |-> FALSE, val |-> 0]

Given(v) == [given |-> TRUE, val |-> v]

\* 'key' in criteria and criteria['key']
TextCriterion(c) == c.given /\ c.val # << >>

\* Price_Numeric >= min_price ; a NaN compares false.
PriceAtLeast(row, min_price) ==
  LET n == ToNumeric(row.Price) IN ~n.nan /\ n.val >= min_price

\* Price_Numeric <= max_price
PriceAtMost(row, max_price) ==
  LET n == ToNumeric(row.Price) IN ~n.nan /\ n.val <= max_price

\* advanced_search(criteria): [out, raised].  The filters narrow query_df,
\* the positions (1-based) of the rows kept, one after the other; a category
\* filter on a frame that has no Category column, and a price filter on a
\* frame that has no Price_Numeric column, raise KeyError.
AdvancedSearch(p, criteria) ==
  IF p.df.isNone THEN [out |-> << >>, raised |-> FALSE]
  ELSE
    LET rows == p.df.rows
        q0 == Range(Len(rows))
        q1 == IF TextCriterion(criteria.trade_name)
              THEN SelectSeq(q0, LAMBDA i :
                     StrContains(rows[i].Trade_Name, criteria.trade_name.val))
              ELSE q0
        q2 == IF TextCriterion(criteria.generic_name)
              THEN SelectSeq(q1, LAMBDA i :
                     StrContains(rows[i].Generic_Name, criteria.generic_name.val))
              ELSE q1
        q3 == IF TextCriterion(criteria.category)
              THEN SelectSeq(q2, LAMBDA i : rows[i].Category = criteria.category.val)
              ELSE q2
        q4 == IF criteria.min_price.given
              THEN SelectSeq(q3, LAMBDA i : PriceAtLeast(rows[i], criteria.min_price.val))
              ELSE q3
        q5 == IF criteria.max_price.given
              THEN SelectSeq(q4, LAMBDA i : PriceAtMost(rows[i], criteria.max_price.val))
              ELSE q4
        q6 == IF TextCriterion(criteria.indication)
              THEN SelectSeq(q5, LAMBDA i :
                     StrContains(rows[i].Indications_for_Use, criteria.indication.val))
              ELSE q5
    IN  IF \/ TextCriterion(criteria.category) /\ "Category" \in p.df.missing
           \/ /\ ~HasPriceNumeric(p)
              /\ criteria.min_price.given \/ criteria.max_price.given
        THEN [out |-> << >>, raised |-> TRUE]
        ELSE [out |-> FromDict(p, q6), raised |-> FALSE]

\* -------------------------------------------------- QuestionAnsweringEngine
\* The intent table, in declaration order.
IntentPatterns ==
  << [ intent |-> "side_effects", patterns |-> <<
         <<"s","i","d","e"," ","e","f","f","e","c","t">>,
         <<"a","d","v","e","r","s","e">>,
         <<"r","e","a","c","t","i","o","n">>,
         <<"n","e","g","a","t","i","v","e">>,
         <<"b","a","d"," ","e","f","f","e","c","t">>,
         <<"h","a","r","m","f","u","l">>,
         <<"d","a","n","g","e","r">>,
         <<"r","i","s","k">>,
         <<"w","a","r","n","i","n","g">> >> ],
     [ intent |-> "price", patterns |-> <<
         <<"p","r","i","c","e">>,
         <<"c","o","s","t">>,
         <<"h","o","w"," ","m","u","c","h">>,
         <<"e","x","p","e","n","s","i","v","e">>,
         <<"c","h","e","a","p">>,
         <<"a","f","f","o","r","d">> >> ],
     [ intent |-> "usage", patterns |-> <<
         <<"u","s","e">>,
         <<"t","r","e","a","t">>,
         <<"f","o","r">>,
         <<"i","n","d","i","c","a","t","i","o","n">>,
         <<"w","h","a","t"," ","i","s">>,
         <<"w","h","a","t","'","s">>,
         <<"h","e","l","p"," ","w","i","t","h">>,
         <<"c","u","r","e">>,
         <<"h","e","a","l">>,
         <<"r","e","m","e","d","y">>,
         <<"t","h","e","r","a","p","y">>,
         <<"t","r","e","a","t","m","e","n","t">> >> ],
     [ intent |-> "dosage", patterns |-> <<
         <<"d","o","s","e">>,
         <<"d","o","s","a","g","e">>,
         <<"h","o","w"," ","m","u","c","h">>,
         <<"h","o","w"," ","m","a","n","y">>,
         <<"t","a","k","e">>,
         <<"f","r","e","q","u","e","n","c","y">>,
         <<"d","a","i","l","y">>,
         <<"t","i","m","e","s"," ","a"," ","d","a","y">>,
         <<"a","d","m","i","n","i","s","t","r","a","t","i","o","n">>,
         <<"h","o","w"," ","t","o"," ","t","a","k","e">> >> ],
     [ intent |-> "category", patterns |-> <<
         <<"c","a","t","e","g","o","r","y">>,
         <<"t","y","p","e">>,
         <<"c","l","a","s","s">>,
         <<"g","r","o","u","p">>,
         <<"s","i","m","i","l","a","r"," ","t","o">>,
         <<"c","l","a","s","s","i","f","i","c","a","t","i","o","n">> >> ],
     [ intent |-> "comparison", patterns |-> <<
         <<"c","o","m","p","a","r","e">>,
         <<"v","e","r","s","u","s">>,
         <<"v","s">>,
         <<"d","i","f","f","e","r","e","n","c","e">>,
         <<"b","e","t","t","e","r">>,
         <<"w","o","r","s","e">>,
         <<"a","l","t","e","r","n","a","t","i","v","e">>,
         <<"s","u","b","s","t","i","t","u","t","e">>,
         <<"r","e","p","l","a","c","e","m","e","n","t">> >> ],
     [ intent |-> "availability", patterns |-> <<
         <<"a","v","a","i","l","a","b","l","e">>,
         <<"f","i","n","d">>,
         <<"g","e","t">>,
         <<"b","u","y">>,
         <<"p","u","r","c","h","a","s","e">>,
         <<"o","b","t","a","i","n">>,
         <<"w","h","e","r","e"," ","c","a","n"," ","i">>,
         <<"p","h","a","r","m","a","c","y">>,
         <<"s","t","o","r","e">>,
         <<"o","n","l","i","n","e">> >> ],
     [ intent |-> "storage", patterns |-> <<
         <<"s","t","o","r","e">>,
         <<"k","e","e","p">>,
         <<"r","e","f","r","i","g","e","r","a","t","e">>,
         <<"t","e","m","p","e","r","a","t","u","r","e">>,
         <<"s","h","e","l","f"," ","l","i","f","e">>,
         <<"e","x","p","i","r","a","t","i","o","n">>,
         <<"e","x","p","i","r","e">>,
         <<"s","t","a","b","i","l","i","t","y">> >> ],
     [ intent |-> "interaction", patterns |-> <<
         <<"i","n","t","e","r","a","c","t">>,
         <<"i","n","t","e","r","a","c","t","i","o","n">>,
         <<"t","o","g","e","t","h","e","r"," ","w","i","t","h">>,
         <<"c","o","m","b","i","n","e">>,
         <<"m","i","x">>,
         <<"a","l","o","n","g"," ","w","i","t","h">>,
         <<"s","i","m","u","l","t","a","n","e","o","u","s","l","y">>,
         <<"c","o","n","f","l","i","c","t">> >> ],
     [ intent |-> "pregnancy", patterns |-> <<
         <<"p","r","e","g","n","a","n","c","y">>,
         <<"p","r","e","g","n","a","n","t">>,
         <<"b","r","e","a","s","t","f","e","e","d","i","n","g">>,
         <<"n","u","r","s","i","n","g">>,
         <<"l","a","c","t","a","t","i","o","n">>,
         <<"e","x","p","e","c","t","i","n","g">>,
         <<"t","r","i","m","e","s","t","e","r">> >> ] >>

\* re.sub(r'\s+', ' ', text): every run of whitespace becomes one space.
RECURSIVE CollapseSpaces(_)
CollapseSpaces(s) ==
  IF s = << >> THEN << >>
  ELSE IF s[1] \in SpaceChars
  THEN IF Len(s) > 1 /\ s[2] \in SpaceChars
       THEN CollapseSpaces(Tail(s))
       ELSE << " " >> \o CollapseSpaces(Tail(s))
  ELSE << s[1] >> \o CollapseSpaces(Tail(s))

\* str.strip()
RECURSIVE Strip(_)
Strip(s) ==
  IF s = << >> THEN s
  ELSE IF s[1] \in SpaceChars THEN Strip(Tail(s))
  ELSE IF s[Len(s)] \in SpaceChars THEN Strip(SubSeq(s, 1, Len(s) - 1))
  ELSE s

\* A whitespace collapse that makes one space of every two neighbouring
\* whitespace characters, in a single pass from the left.
RECURSIVE CollapseSpacePairs(_)
CollapseSpacePairs(s) ==
  IF s = << >> THEN << >>
  ELSE IF s[1] \in SpaceChars
  THEN << " " >> \o CollapseSpacePairs(IF Len(s) > 1 /\ s[2] \in SpaceChars
                                       THEN Tail(Tail(s)) ELSE Tail(s))
  ELSE << s[1] >> \o CollapseSpacePairs(Tail(s))

\* A normalizer that collapses whitespace pair by pair.
PreprocessTextPairs(text) == Strip(CollapseSpacePairs(Lower(text)))

\* _preprocess_text: lower-case, collapse whitespace, strip.
PreprocessText(text) == Strip(CollapseSpaces(Lower(text)))

\* string.punctuation, but for the backquote, which no string of this
\* module can hold and no text here contains.
PunctuationChars ==
  { "!", "\"", "#", "%", "&", "'", "(", ")", "*", "+", ",", "-", ".", "/",
    ":", ";", "<", "=", ">", "?", "@", "[", "\\", "]", "^", "_", "{",
    "|", "}", "~", "$" }

\* MedicationNLP.preprocess_text (enhanced_nlp.py): lower-case, then
\* text.translate(...) deletes every punctuation character; whitespace is
\* left as it is.
NlpPreprocessText(text) ==
  SelectSeq(Lower(text), LAMBDA c : c \notin PunctuationChars)

\* \w of a regular expression.
IsWordChar(c) == c \in UpperChars \cup LowerChars \cup DigitChars \cup {"_"}

\* [\w\s]
IsWordOrSpace(c) == IsWordChar(c) \/ c \in SpaceChars

\* re.search(r'\b' + pattern + r'\b', text) for a pattern of literal
\* characters that begins and ends with a word character.
SearchWord(pattern, text) ==
  \E i \in 1..(Len(text) - Len(pattern) + 1) :
     /\ SubSeq(text, i, i + Len(pattern) - 1) = pattern
     /\ i = 1 \/ ~IsWordChar(text[i - 1])
     /\ i + Len(pattern) - 1 = Len(text) \/ ~IsWordChar(text[i + Len(pattern)])

\* The number of patterns of entry e found in the text.
MatchCount(e, text) ==
  Cardinality({ j \in 1..Len(e.patterns) : SearchWord(e.patterns[j], text) })

\* An intent choice that keeps the last of the intents with the highest
\* count.
IdentifyIntentLastTie(text) ==
  LET processed_text == PreprocessText(text)
      count(k) == MatchCount(IntentPatterns[k], processed_text)
      matched == { k \in 1..Len(IntentPatterns) : count(k) > 0 }
  IN  IF matched = {} THEN "general_info"
      ELSE IntentPatterns[
             CHOOSE k \in matched :
               /\ \A m \in matched : count(m) <= count(k)
               /\ \A m \in matched : m > k => count(m) < count(k) ].intent

\* _identify_intent: max() over the matched intents keeps the first of the
\* intents with the highest count, in the order they were entered.
IdentifyIntent(text) ==
  LET processed_text == PreprocessText(text)
      count(k) == MatchCount(IntentPatterns[k], processed_text)
      matched == { k \in 1..Len(IntentPatterns) : count(k) > 0 }
  IN  IF matched = {} THEN "general_info"
      ELSE IntentPatterns[
             CHOOSE k \in matched :
               /\ \A m \in matched : count(m) <= count(k)
               /\ \A m \in matched : m < k => count(m) < count(k) ].intent

\* _identify_medication_names: trade-name hits, then generic-name hits,
\* then one entry per id (first position, last value).
NameHits(p, index, processed_text) ==
  LET hit == SelectSeq(Range(Len(index)),
               LAMBDA i : /\ Contains(index[i].k, processed_text)
                          /\ DictLookup(p, index[i].v) # << >>)
  IN  [j \in 1..Len(hit) |-> DictLookup(p, index[hit[j]].v)[1]]

RECURSIVE UniqueById(_, _, _)
UniqueById(unique, found, i) ==
  IF i > Len(found) THEN unique
  ELSE UniqueById(DictSet(unique, found[i].id, found[i]), found, i + 1)

\* An extraction that looks at the generic names before the trade names.
IdentifyMedicationNamesGenericFirst(p, text) ==
  LET processed_text == PreprocessText(text)
      found == NameHits(p, p.generic_name_index, processed_text)
               \o NameHits(p, p.trade_name_index, processed_text)
  IN  DictValues(UniqueById(<< >>, found, 1))

IdentifyMedicationNames(p, text) ==
  LET processed_text == PreprocessText(text)
      found == NameHits(p, p.trade_name_index, processed_text)
               \o NameHits(p, p.generic_name_index, processed_text)
  IN  DictValues(UniqueById(<< >>, found, 1))

\* The condition templates of _identify_category_query.  A template is the
\* literal texts its head can take (medications? for -> two texts) and the
\* number of groups it has; every template ends with the group ([\w\s]+).
\* In the last template the first group is the verb after "what ".
ConditionTemplates ==
  << [ heads |-> { <<"m","e","d","i","c","a","t","i","o","n"," ","f","o","r"," ">>, <<"m","e","d","i","c","a","t","i","o","n","s"," ","f","o","r"," ">> }, groups |-> 1 ],
     [ heads |-> { <<"d","r","u","g"," ","f","o","r"," ">>, <<"d","r","u","g","s"," ","f","o","r"," ">> }, groups |-> 1 ],
     [ heads |-> { <<"m","e","d","i","c","i","n","e"," ","f","o","r"," ">> }, groups |-> 1 ],
     [ heads |-> { <<"t","r","e","a","t","m","e","n","t"," ","f","o","r"," ">> }, groups |-> 1 ],
     [ heads |-> { <<"c","u","r","e"," ","f","o","r"," ">> }, groups |-> 1 ],
     [ heads |-> { <<"r","e","m","e","d","y"," ","f","o","r"," ">> }, groups |-> 1 ],
     [ heads |-> { <<"w","h","a","t"," ","t","r","e","a","t","s"," ">>, <<"w","h","a","t"," ","c","u","r","e","s"," ">>, <<"w","h","a","t"," ","h","e","l","p","s"," ","w","i","t","h"," ">> },
       groups |-> 2 ] >>

\* The head h matches at position i and at least one [\w\s] follows.
HeadAt(h, text, i) ==
  /\ i + Len(h) <= Len(text)
  /\ SubSeq(text, i, i + Len(h) - 1) = h
  /\ IsWordOrSpace(text[i + Len(h)])

\* The longest run of [\w\s] that starts at position i.
RECURSIVE RunFrom(_, _)
RunFrom(text, i) ==
  IF i > Len(text) \/ ~IsWordOrSpace(text[i]) THEN << >>
  ELSE << text[i] >> \o RunFrom(text, i + 1)

\* re.search(template, text): [found, group1, last], the leftmost match;
\* group1 is the first group, last the final ([\w\s]+) group.
TemplateSearch(t, text) ==
  LET at == { i \in 1..Len(text) : \E h \in t.heads : HeadAt(h, text, i) }
  IN  IF at = {} THEN [found |-> FALSE, group1 |-> << >>, last |-> << >>]
      ELSE LET i == CHOOSE x \in at : \A y \in at : x <= y
               h == CHOOSE x \in t.heads : HeadAt(x, text, i)
               phrase == RunFrom(text, i + Len(h))
           IN  [found  |-> TRUE,
                group1 |-> IF t.groups = 2
                           THEN SubSeq(h, Len(<<"w","h","a","t"," ">>) + 1, Len(h) - 1)
                           ELSE phrase,
                last   |-> phrase]

\* _identify_category_query: the first template that matches decides.
\* pattern.endswith('([\w\s]+)') holds for every template, so group(1) is
\* returned for each of them.  None is the empty sequence, a condition c is
\* << c >>.
IdentifyCategoryQuery(text) ==
  LET processed_text == PreprocessText(text)
      hits == { k \in 1..Len(ConditionTemplates) :
                  TemplateSearch(ConditionTemplates[k], processed_text).found }
  IN  IF hits = {} THEN << >>
      ELSE LET k == CHOOSE x \in hits : \A y \in hits : x <= y
           IN  << Strip(TemplateSearch(ConditionTemplates[k], processed_text).group1) >>

\* _analyze_question (the keywords are not used by answer_question)
AnalyzeQuestion(p, question) ==
  [ medications |-> IdentifyMedicationNames(p, question),
    intent      |-> IdentifyIntent(question),
    condition   |-> IdentifyCategoryQuery(question) ]

\* ------------------------------------------------------------- the answers
\* An answer is the template that was rendered and the values put into it:
\*   template      which fixed text
\*   medication    << the medication >> of a medication template
\*   condition     << the condition >> of a condition answer
\*   effects       the side effects listed
\*   matches       the medications listed by a condition answer
\*   more          the N of the "N more" suffix, 0 when there is none
\*   form_sentence the usage answer's dosage-form and strength sentence
MaxListed == 5

Answer(template) ==
  [ template |-> template, medication |-> << >>, condition |-> << >>,
    effects |-> << >>, matches |-> << >>, more |-> 0, form_sentence |-> FALSE ]

MoreThanListed(n) == IF n > MaxListed THEN n - MaxListed ELSE 0

\* _generate_side_effects_response
GenerateSideEffectsResponse(medication) ==
  IF medication.Side_Effects = << >>
  THEN [Answer("side_effects_none") EXCEPT !.medication = << medication >>]
  ELSE [Answer("side_effects") EXCEPT !.medication = << medication >>,
                                      !.effects = medication.Side_Effects]

\* _generate_price_response
GeneratePriceResponse(medication) ==
  [Answer("price") EXCEPT !.medication = << medication >>]

\* _generate_usage_response
GenerateUsageResponse(medication) ==
  [Answer("usage") EXCEPT
     !.medication = << medication >>,
     !.form_sentence = (medication.Dosage_Form # << >> /\ medication.Strength # << >>)]

\* _generate_general_info_response
GenerateGeneralInfoResponse(medication) ==
  [Answer("general_info") EXCEPT
     !.medication = << medication >>,
     !.effects = Take(medication.Side_Effects, MaxListed),
     !.more = MoreThanListed(Len(medication.Side_Effects))]

\* _generate_category_response
GenerateCategoryResponse(p, condition) ==
  LET matching_meds ==
        SelectSeq(DictValues(p.medications_dict),
          LAMBDA med : \/ Contains(Lower(condition), Lower(med.Category))
                       \/ Contains(Lower(condition), Lower(med.Indications_for_Use)))
  IN  IF matching_meds = << >>
      THEN [Answer("category_not_found") EXCEPT !.condition = << condition >>]
      ELSE [Answer("category") EXCEPT
              !.condition = << condition >>,
              !.matches = Take(matching_meds, MaxListed),
              !.more = MoreThanListed(Len(matching_meds))]

\* The values the f-strings of a template put into the answer text.
RenderedValues(answer) ==
  LET of(field) == { answer.medication[i][field] : i \in 1..Len(answer.medication) }
      listed(field) == { answer.matches[i][field] : i \in 1..Len(answer.matches) }
      effects == { answer.effects[i] : i \in 1..Len(answer.effects) }
  IN  IF answer.template \in {"side_effects", "side_effects_none"}
      THEN of("Trade_Name") \cup effects
      ELSE IF answer.template = "price"
      THEN of("Trade_Name") \cup of("Price")
      ELSE IF answer.template = "usage"
      THEN of("Trade_Name") \cup of("Generic_Name") \cup of("Indications_for_Use")
           \cup (IF answer.form_sentence
                 THEN of("Dosage_Form") \cup of("Strength") ELSE {})
      ELSE IF answer.template = "general_info"
      THEN of("Trade_Name") \cup of("Generic_Name") \cup of("Category")
           \cup of("Indications_for_Use") \cup of("Dosage_Form")
           \cup of("Strength") \cup of("Price") \cup effects
      ELSE IF answer.template \in {"category", "category_not_found"}
      THEN { answer.condition[i] : i \in 1..Len(answer.condition) }
           \cup listed("Trade_Name") \cup listed("Generic_Name")
           \cup listed("Indications_for_Use") \cup listed("Price")
      ELSE {}

\* A medication branch that has no usage template of its own.
MedicationResponseNoUsage(medication, intent) ==
  IF intent = "side_effects" THEN GenerateSideEffectsResponse(medication)
  ELSE IF intent = "price" THEN GeneratePriceResponse(medication)
  ELSE GenerateGeneralInfoResponse(medication)

\* The medication branch of answer_question: the first medication, the
\* template by intent.
MedicationResponse(medication, intent) ==
  IF intent = "side_effects" THEN GenerateSideEffectsResponse(medication)
  ELSE IF intent = "price" THEN GeneratePriceResponse(medication)
  ELSE IF intent = "usage" THEN GenerateUsageResponse(medication)
  ELSE GenerateGeneralInfoResponse(medication)

\* A storage test that also takes "keep" for a storage word.
AsksStorageOrKeep(question) ==
  /\ \/ Contains(<<"s","t","o","r","e">>, Lower(question))
     \/ Contains(<<"k","e","e","p">>, Lower(question))
  /\ \/ Contains(<<"m","e","d","i","c","a","t","i","o","n">>, Lower(question))
     \/ Contains(<<"m","e","d","i","c","i","n","e">>, Lower(question))

\* The tests answer_question makes on the raw question for the two fixed
\* blocks.
AsksStorage(question) ==
  /\ Contains(<<"s","t","o","r","e">>, Lower(question))
  /\ \/ Contains(<<"m","e","d","i","c","a","t","i","o","n">>, Lower(question))
     \/ Contains(<<"m","e","d","i","c","i","n","e">>, Lower(question))

AsksGenericVsBrand(question) ==
  /\ Contains(<<"g","e","n","e","r","i","c">>, Lower(question))
  /\ Contains(<<"b","r","a","n","d">>, Lower(question))

\* A dispatch that looks at the condition before the medications.
DispatchConditionFirst(p, question, analysis) ==
  IF analysis.condition # << >> /\ analysis.condition[1] # << >>
  THEN GenerateCategoryResponse(p, analysis.condition[1])
  ELSE IF analysis.medications # << >>
  THEN MedicationResponse(analysis.medications[1], analysis.intent)
  ELSE IF AsksStorage(question) THEN Answer("storage")
  ELSE IF AsksGenericVsBrand(question) THEN Answer("generic_vs_brand")
  ELSE Answer("default")

\* The dispatch of answer_question on an analysis.
Dispatch(p, question, analysis) ==
  IF analysis.medications # << >>
  THEN MedicationResponse(analysis.medications[1], analysis.intent)
  ELSE IF analysis.condition # << >> /\ analysis.condition[1] # << >>
  THEN GenerateCategoryResponse(p, analysis.condition[1])
  ELSE IF AsksStorage(question) THEN Answer("storage")
  ELSE IF AsksGenericVsBrand(question) THEN Answer("generic_vs_brand")
  ELSE Answer("default")

\* answer_question
AnswerQuestion(p, question) == Dispatch(p, question, AnalyzeQuestion(p, question))

\* ------------------------------------------------------------- the inputs
SearchTerms == { << >>, <<"p","a","i","n">>, <<"A","d","o","l">> }

CategoryArgs == { << >>, <<"A","n","a","l","g","e","s","i","c">>, <<"a","n","a","l","g","e","s","i","c">> }

LimitArgs == { NoLimit } \cup { LimitOf(n) : n \in 0..MaxLimit }

IdArgs == { <<"0">>, <<"1">>, <<"2">>, <<"7">> }

NameArgs == { <<"P","A","N","A","D","O","L">>, <<"p","a","r","a","c","e","t","a","m","o","l">>, <<"Z","y","r","t","e","c">>, <<"a","s","p","i","r","i","n">> }

CriteriaArgs ==
  [ trade_name   : { Absent, Given(<< >>), Given(<<"a","d","o">>), Given(<<".">>) },
    generic_name : { Absent, Given(<<"P","A","R","A">>) },
    category     : { Absent, Given(<<"A","n","a","l","g","e","s","i","c">>) },
    min_price    : { AbsentPrice, Given(10), Given(20) },
    max_price    : { AbsentPrice, Given(15), Given(20) },
    indication   : { Absent, Given(<<"p","a","i","n">>) } ]

Questions ==
  { <<"W","h","a","t"," ","i","s"," ","P","a","n","a","d","o","l"," ","u","s","e","d"," ","f","o","r","?">>,
    <<"H","o","w"," ","m","u","c","h"," ","d","o","e","s"," ","L","i","p","i","t","o","r"," ","c","o","s","t","?">>,
    <<"s","i","d","e"," ","e","f","f","e","c","t","s"," ","o","f"," ","a","d","o","l">>,
    <<"T","e","l","l"," ","m","e"," ","a","b","o","u","t"," ","Z","y","r","t","e","c">>,
    <<"m","e","d","i","c","a","t","i","o","n","s"," ","f","o","r"," ","h","e","a","d","a","c","h","e">>,
    <<"d","r","u","g","s"," ","f","o","r"," "," ","i","n","s","o","m","n","i","a">>,
    <<"H","o","w"," ","d","o"," ","I"," ","s","t","o","r","e"," ","m","e","d","i","c","i","n","e","?">>,
    <<"r","e","s","t","o","r","e","d"," ","m","y"," ","m","e","d","i","c","a","t","i","o","n">>,
    <<"G","e","n","e","r","i","c"," ","o","r"," ","b","r","a","n","d","?">>,
    <<"h","e","l","l","o">>,
    <<"K","e","e","p","i","n","g"," ","m","e","d","i","c","i","n","e">>,
    <<"p","a","n","a","d","o","l"," ","m","e","d","i","c","a","t","i","o","n","s"," ","f","o","r"," ","p","a","i","n"," ","s","t","o","r","e"," ","m","e","d","i","c","i","n","e"," ","g","e","n","e","r","i","c"," ","b","r","a","n","d">>,
    <<"m","e","d","i","c","a","t","i","o","n","s"," ","f","o","r"," ","p","a","i","n",","," ","s","t","o","r","e"," ","m","e","d","i","c","i","n","e"," ","g","e","n","e","r","i","c"," ","b","r","a","n","d">>,
    <<"S","t","o","r","e"," ","m","e","d","i","c","i","n","e",":"," ","g","e","n","e","r","i","c"," ","b","r","a","n","d">>,
    <<"I","s"," ","P","a","n","a","d","o","l"," "," ","E","x","t","r","a"," ","s","a","f","e","?">>,
    <<"a","d","v","e","r","s","e"," ","r","e","a","c","t","i","o","n"," ","t","o"," ","A","d","o","l">>,
    <<"w","h","a","t"," ","t","r","e","a","t","s"," ","f","e","v","e","r">>,
    <<"H","o","w"," ","m","u","c","h"," ","t","o"," ","k","e","e","p"," ","a","n","d"," ","s","t","o","r","e"," ","A","d","o","l","?">>,
    <<"I","s"," ","p","a","r","a","c","e","t","a","m","o","l"," ","s","a","f","e","?">>,
    <<"P","a","n","a","d","o","l",","," ","p","a","r","a","c","e","t","a","m","o","l"," ","o","r"," ","a","t","o","r","v","a","s","t","a","t","i","n">>,
    <<"m","e","d","i","c","i","n","e"," ","f","o","r"," ","f","l","u">>,
    <<"T","e","l","l"," ","m","e"," ","a","b","o","u","t"," ","F","l","u","z","a">> }

\* The texts the two normalizers are run on.
Texts ==
  { <<"W","h","a","t"," ","i","s"," "," ","P","a","n","a","d","o","l","?">>,
    <<" ","A"," ",",","\t","b"," "," "," ","c"," ">>,
    <<"h","e","l","l","o">>,
    <<"D","r","."," ","O","'","N","e","i","l",":"," ","5","m","g","/","m","l">> }

\* The JSON bodies POST /api/answer is sent.  keys: the keys of the object
\* ({} is the empty object); null: the value of "question" is null; text:
\* the value of "question" when it is a string.
Body(keys, null, text) == [keys |-> keys, null |-> null, text |-> text]

AnswerBodies ==
  { Body({}, FALSE, << >>),
    Body({"q"}, FALSE, << >>),
    Body({"question"}, TRUE, << >>),
    Body({"question"}, FALSE, << >>),
    Body({"question"}, FALSE, <<" ","\t"," ">>),
    Body({"question"}, FALSE, <<" ","h","e","l","l","o"," ">>),
    Body({"question"}, FALSE, <<"W","h","a","t"," ","i","s"," ","P","a","n","a","d","o","l"," ","u","s","e","d"," ","f","o","r","?">>) }

\* ------------------------------------------------------- the state machine
\* medication_processor  the MedicationProcessor the handlers share
\* load_result           what the last load_data call returned
\*                       ("none" before the first call)
\* loads                 the number of load_data calls made
\* response              the result of the call being answered;
\*                       [op |-> "idle"] between calls
\* loader                a load_data call that runs beside the readers:
\*                       the statement it is at, its source, and the
\*                       processor as it was when the call began
VARIABLES medication_processor, load_result, loads, response, loader

vars == << medication_processor, load_result, loads, response, loader >>

Idle == [op |-> "idle"]

NoLoader == [pc |-> "idle", source |-> 0, before |-> NewProcessor]

Init ==
  /\ medication_processor = NewProcessor
  /\ load_result = "none"
  /\ loads = 0
  /\ response = Idle
  /\ loader = NoLoader

\* medication_processor.load_data(source), run from start to end with no
\* other call in between.
Load ==
  \E s \in 1..Len(Sources) :
    LET r == LoadData(medication_processor, Sources[s])
    IN  /\ response = Idle
        /\ loader.pc = "idle"
        /\ loads < MaxLoads
        /\ medication_processor' = r.p
        /\ load_result' = IF r.ok THEN "ok" ELSE "failed"
        /\ loads' = loads + 1
        /\ response' = [op |-> "load_data", source |-> s, ok |-> r.ok]
        /\ UNCHANGED loader

\* GET /api/health
HealthStatus(p) == IF IsDataLoaded(p) THEN 200 ELSE 503

HealthResponse(p) ==
  IF IsDataLoaded(p)
  THEN [op |-> "health_check", status |-> 200,
        medications_count |-> GetMedicationCount(p),
        categories_count |-> Len(GetCategories(p))]
  ELSE [op |-> "health_check", status |-> 503,
        medications_count |-> 0, categories_count |-> 0]

HealthCheck ==
  /\ response = Idle
  /\ response' = HealthResponse(medication_processor)
  /\ UNCHANGED << medication_processor, load_result, loads, loader >>

\* medication_processor.get_categories()
CategoriesResponse(p) == [op |-> "get_categories", out |-> GetCategories(p)]

Categories ==
  /\ response = Idle
  /\ response' = CategoriesResponse(medication_processor)
  /\ UNCHANGED << medication_processor, load_result, loads, loader >>

\* medication_processor.get_statistics()
StatisticsResponse(p) == [op |-> "get_statistics", out |-> GetStatistics(p)]

Statistics ==
  /\ response = Idle
  /\ response' = StatisticsResponse(medication_processor)
  /\ UNCHANGED << medication_processor, load_result, loads, loader >>

\* medication_processor.get_medications(search, category, limit)
SearchResponse(p, search, category, limit) ==
  IF GetMedicationsRaises(p, search, category)
  THEN [op |-> "get_medications", search |-> search, category |-> category,
        limit |-> limit, out |-> << >>, raised |-> TRUE]
  ELSE [op |-> "get_medications", search |-> search, category |-> category,
        limit |-> limit, out |-> GetMedications(p, search, category, limit),
        raised |-> FALSE]

Search ==
  \E search \in SearchTerms, category \in CategoryArgs, limit \in LimitArgs :
    /\ response = Idle
    /\ response' = SearchResponse(medication_processor, search, category, limit)
    /\ UNCHANGED << medication_processor, load_result, loads, loader >>

\* medication_processor.get_medication_by_id(medication_id)
ByIdResponse(p, id) ==
  [op |-> "get_medication_by_id", id |-> id, out |-> GetMedicationById(p, id)]

ById ==
  \E id \in IdArgs :
    /\ response = Idle
    /\ response' = ByIdResponse(medication_processor, id)
    /\ UNCHANGED << medication_processor, load_result, loads, loader >>

\* A lookup by name that, on a generic-name hit, enters the name into the
\* trade-name index to find it sooner the next time.
ByNameCaching ==
  \E name \in NameArgs :
    LET p == medication_processor
        name_lower == Lower(name)
        cached == ~DictHas(p.trade_name_index, name_lower)
                  /\ DictHas(p.generic_name_index, name_lower)
    IN  /\ response = Idle
        /\ response' = [op |-> "get_medication_by_name", name |-> name,
                        out |-> GetMedicationByName(p, name)]
        /\ medication_processor' =
             IF cached
             THEN [p EXCEPT !.trade_name_index =
                     DictSet(@, name_lower, DictGet(p.generic_name_index, name_lower))]
             ELSE p
        /\ UNCHANGED << load_result, loads, loader >>

\* medication_processor.get_medication_by_name(name)
ByNameResponse(p, name) ==
  [op |-> "get_medication_by_name", name |-> name,
   out |-> GetMedicationByName(p, name)]

ByName ==
  \E name \in NameArgs :
    /\ response = Idle
    /\ response' = ByNameResponse(medication_processor, name)
    /\ UNCHANGED << medication_processor, load_result, loads, loader >>

\* medication_processor.advanced_search(criteria)
AdvancedResponse(p, criteria) ==
  LET r == AdvancedSearch(p, criteria)
  IN  [op |-> "advanced_search", criteria |-> criteria,
       out |-> r.out, raised |-> r.raised]

Advanced ==
  \E criteria \in CriteriaArgs :
    /\ response = Idle
    /\ response' = AdvancedResponse(medication_processor, criteria)
    /\ UNCHANGED << medication_processor, load_result, loads, loader >>

\* qa_engine.answer_question(question)
AskResponse(p, question) ==
  [op |-> "answer_question", question |-> question,
   analysis |-> AnalyzeQuestion(p, question),
   out |-> AnswerQuestion(p, question)]

Ask ==
  \E question \in Questions :
    /\ response = Idle
    /\ response' = AskResponse(medication_processor, question)
    /\ UNCHANGED << medication_processor, load_result, loads, loader >>

\* The two text normalizers applied to a text, each once and twice:
\* QuestionAnsweringEngine._preprocess_text (qa) and
\* MedicationNLP.preprocess_text (nlp).
PreprocessResponse(text) ==
  [op |-> "preprocess_text", text |-> text,
   qa  |-> PreprocessText(text),
   nlp |-> NlpPreprocessText(text),
   qa_twice  |-> PreprocessText(PreprocessText(text)),
   nlp_twice |-> NlpPreprocessText(NlpPreprocessText(text))]

Preprocess ==
  \E text \in Texts :
    /\ response = Idle
    /\ response' = PreprocessResponse(text)
    /\ UNCHANGED << medication_processor, load_result, loads, loader >>

\* POST /api/answer (app.py, answer_question).  called is << q >> when
\* qa_engine.answer_question(q) was called, out its answer.  None has no
\* strip(): a null question raises AttributeError outside the handler's
\* try block, which Flask answers with status 500.
PostAnswerResponse(p, body) ==
  LET reply(status) == [op |-> "post_answer", body |-> body, status |-> status,
                        called |-> << >>, out |-> << >>]
      question == Strip(body.text)
  IN  IF ~IsDataLoaded(p) THEN reply(503)
      ELSE IF body.keys = {} \/ "question" \notin body.keys THEN reply(400)
      ELSE IF body.null THEN reply(500)
      ELSE IF question = << >> THEN reply(400)
      ELSE [reply(200) EXCEPT !.called = << question >>,
                              !.out = << AnswerQuestion(p, question) >>]

PostAnswer ==
  \E body \in AnswerBodies :
    /\ response = Idle
    /\ response' = PostAnswerResponse(medication_processor, body)
    /\ UNCHANGED << medication_processor, load_result, loads, loader >>

\* The call returns: its result has been handed to the caller.
Return ==
  /\ response # Idle
  /\ response' = Idle
  /\ UNCHANGED << medication_processor, load_result, loads, loader >>

Next ==
  \/ Load
  \/ HealthCheck
  \/ Categories
  \/ Statistics
  \/ Search
  \/ ById
  \/ ByName
  \/ Advanced
  \/ Ask
  \/ PostAnswer
  \/ Preprocess
  \/ Return

\* One call at a time: every load_data call runs to its end before the next
\* call starts.
Spec == Init /\ [][Next]_vars

\* ------------------------------------------- a load beside the readers
\* load_data holds no lock and works on the processor's own fields, so a
\* reader on another thread can run between two of its statements.  The
\* steps below are the statements of load_data, lines 35, 38, 41 and 44;
\* a load begins when no reader's result is pending.

\* self.df = pd.read_csv(source); an unreadable source ends the call.
LoadBegin ==
  \E s \in 1..Len(Sources) :
    /\ loader.pc = "idle"
    /\ response = Idle
    /\ loads < MaxLoads
    /\ loads' = loads + 1
    /\ IF Sources[s].readable
       THEN /\ medication_processor' = AssignFrame(medication_processor, Sources[s])
            /\ loader' = [pc |-> "clean", source |-> s, before |-> medication_processor]
            /\ UNCHANGED load_result
       ELSE /\ load_result' = "failed"
            /\ UNCHANGED << medication_processor, loader >>
    /\ UNCHANGED response

\* self._clean_data()
LoadClean ==
  /\ loader.pc = "clean"
  /\ medication_processor' = CleanData(medication_processor)
  /\ loader' = [loader EXCEPT !.pc = "index"]
  /\ UNCHANGED << load_result, loads, response >>

\* self._create_indexes(); an exception ends the call.
LoadIndexes ==
  LET x == CreateIndexes(medication_processor)
  IN  /\ loader.pc = "index"
      /\ medication_processor' = x.p
      /\ IF x.raised
         THEN /\ load_result' = "failed"
              /\ loader' = NoLoader
         ELSE /\ loader' = [loader EXCEPT !.pc = "dict"]
              /\ UNCHANGED load_result
      /\ UNCHANGED << loads, response >>

\* self._create_medications_dict(); return True
LoadDict ==
  /\ loader.pc = "dict"
  /\ medication_processor' = CreateMedicationsDict(medication_processor)
  /\ load_result' = "ok"
  /\ loader' = NoLoader
  /\ UNCHANGED << loads, response >>

ConcurrentNext ==
  \/ LoadBegin
  \/ LoadClean
  \/ LoadIndexes
  \/ LoadDict
  \/ HealthCheck
  \/ Categories
  \/ Statistics
  \/ Search
  \/ ById
  \/ ByName
  \/ Advanced
  \/ Ask
  \/ PostAnswer
  \/ Preprocess
  \/ Return

ConcurrentSpec == Init /\ [][ConcurrentNext]_vars

\* ---------------------------------------------------------------- claims
MedicationTemplates ==
  { "side_effects", "side_effects_none", "price", "usage", "general_info" }

ConditionTemplatesRendered == { "category", "category_not_found" }

Asked == response.op = "answer_question"

\* C1: answer_question dispatches in a fixed order and the first branch
\* that matches wins: a medication found gives a medication template for
\* the first medication; otherwise an extracted condition gives the
\* condition answer; otherwise the storage block; otherwise the
\* generic-vs-brand block; otherwise the default help message.  A medication
\* wins even when a condition, the storage words and the generic/brand
\* words are all present.
C1_DispatchOrder ==
  Asked =>
    LET a == response.analysis
        q == response.question
        t == response.out.template
    IN  IF a.medications # << >>
        THEN t \in MedicationTemplates /\ response.out.medication = << a.medications[1] >>
        ELSE IF a.condition # << >>
        THEN t \in ConditionTemplatesRendered /\ response.out.condition = a.condition
        ELSE IF AsksStorage(q) THEN t = "storage"
        ELSE IF AsksGenericVsBrand(q) THEN t = "generic_vs_brand"
        ELSE t = "default"

\* A question with a medication, a condition, the storage words and the
\* generic/brand words at once has been answered.
C1_Witness ==
  /\ Asked
  /\ response.analysis.medications # << >>
  /\ response.analysis.condition # << >>
  /\ AsksStorage(response.question)
  /\ AsksGenericVsBrand(response.question)
  /\ response.out.template \in MedicationTemplates

\* The lower-cased raw question holds the text.
Mentions(text, question) == Contains(text, Lower(question))

NothingRecognised ==
  /\ Asked
  /\ response.analysis.medications = << >>
  /\ response.analysis.intent = "general_info"
  /\ response.analysis.condition = << >>

TableRecords(rows) == [i \in 1..Len(rows) |-> Medication(rows[i], i - 1)]

Elements(s) == { s[i] : i \in 1..Len(s) }

CurrentRecords == Elements(TableRecords(medication_processor.df.rows))

\* C3: after any sequence of loads the table and its indexes describe
\* exactly the dataset loaded last: getById, getByName, the unfiltered
\* search and extractMedications return only records of that dataset.
C3_OnlyCurrentDataset ==
  load_result = "ok" =>
    /\ response.op \in {"get_medication_by_id", "get_medication_by_name"}
         => Elements(response.out) \subseteq CurrentRecords
    /\ ( /\ response.op = "get_medications"
         /\ response.search = << >>
         /\ response.category = << >> )
         => Elements(response.out) \subseteq CurrentRecords
    /\ Asked => Elements(response.analysis.medications) \subseteq CurrentRecords

\* What the call behind response r returns on processor p.
Replay(p, r) ==
  CASE r.op = "health_check" -> HealthResponse(p)
    [] r.op = "get_medications" -> SearchResponse(p, r.search, r.category, r.limit)
    [] r.op = "get_medication_by_id" -> ByIdResponse(p, r.id)
    [] r.op = "get_medication_by_name" -> ByNameResponse(p, r.name)
    [] r.op = "advanced_search" -> AdvancedResponse(p, r.criteria)
    [] r.op = "answer_question" -> AskResponse(p, r.question)
    [] r.op = "get_categories" -> CategoriesResponse(p)
    [] r.op = "get_statistics" -> StatisticsResponse(p)
    [] r.op = "post_answer" -> PostAnswerResponse(p, r.body)
    [] r.op = "preprocess_text" -> PreprocessResponse(r.text)

\* C4: a reader that runs while a reload is running (a load_data call on
\* a processor whose last load succeeded and left a table) gets what it
\* would get from the processor as it was before the reload began, or what
\* it would get from the processor as the finished reload leaves it.
C4_OldOrNew ==
  ( /\ loader.pc # "idle"
    /\ load_result = "ok"
    /\ IsDataLoaded(loader.before)
    /\ response # Idle ) =>
    \/ response = Replay(loader.before, response)
    \/ response = Replay(LoadData(loader.before, Sources[loader.source]).p, response)

\* C5: after a load that failed the system reports itself unhealthy:
\* is_data_loaded() is false and GET /api/health answers 503.
C5_FailedLoadUnhealthy ==
  load_result = "failed" =>
    /\ ~IsDataLoaded(medication_processor)
    /\ HealthStatus(medication_processor) = 503
    /\ response.op = "health_check" => response.status = 503

Searched == response.op = "get_medications"

\* C6: search with no term, no category and no limit returns every record
\* of the table exactly once, in row order.
C6_UnfilteredSearch ==
  ( /\ load_result = "ok"
    /\ Searched
    /\ response.search = << >>
    /\ response.category = << >>
    /\ ~response.limit.given )
  => response.out = TableRecords(medication_processor.df.rows)

\* C7: with an integer limit (0 included) smaller than the number of
\* records that pass the filters, search returns exactly the first limit
\* records of the filtered sequence.
C7_LimitTruncates ==
  Searched =>
    LET filtered == GetMedications(medication_processor, response.search,
                                   response.category, NoLimit)
    IN  (response.limit.given /\ response.limit.n < Len(filtered))
          => /\ response.out = SubSeq(filtered, 1, response.limit.n)
             /\ Len(response.out) = response.limit.n

\* The search predicate of C8 on one record.
PassesSearch(record, term, category) ==
  /\ category # << >> => record.Category = category
  /\ term # << >> =>
       \/ Contains(Lower(term), Lower(record.Trade_Name))
       \/ Contains(Lower(term), Lower(record.Generic_Name))
       \/ Contains(Lower(term), Lower(record.Category))
       \/ Contains(Lower(term), Lower(record.Indications_for_Use))

\* C8: search(term, category, no limit) returns exactly the records of the
\* table, in row order, whose Category equals category (when given) and
\* which hold term, ignoring case, in trade name, generic name, category
\* or indications (when given).
C8_SearchFilters ==
  (load_result = "ok" /\ Searched /\ ~response.limit.given)
  => response.out =
       SelectSeq(TableRecords(medication_processor.df.rows),
                 LAMBDA record : PassesSearch(record, response.search, response.category))

AdvancedSearched == response.op = "advanced_search" /\ ~response.raised

\* The parsed price of the record lies within the bounds given.
PriceWithin(record, criteria) ==
  /\ IsNumeric(record.Price)
  /\ criteria.min_price.given => criteria.min_price.val <= ParseInt(record.Price)
  /\ criteria.max_price.given => ParseInt(record.Price) <= criteria.max_price.val

\* C9: advancedSearch with a price bound returns only records whose parsed
\* price lies within the bounds, both inclusive; a record whose price does
\* not parse is never returned.
C9_PriceRange ==
  ( /\ AdvancedSearched
    /\ response.criteria.min_price.given \/ response.criteria.max_price.given )
  => \A record \in Elements(response.out) : PriceWithin(record, response.criteria)

\* A text criterion that is supplied holds of the field: the field
\* contains the text, ignoring case.
HoldsText(c, field) == (c.given /\ c.val # << >>) => Contains(Lower(c.val), Lower(field))

\* Every supplied criterion holds of the record.
PassesAll(record, criteria) ==
  /\ HoldsText(criteria.trade_name, record.Trade_Name)
  /\ HoldsText(criteria.generic_name, record.Generic_Name)
  /\ (criteria.category.given /\ criteria.category.val # << >>)
       => record.Category = criteria.category.val
  /\ (criteria.min_price.given \/ criteria.max_price.given)
       => PriceWithin(record, criteria)
  /\ HoldsText(criteria.indication, record.Indications_for_Use)

\* C10: advancedSearch returns exactly the records that satisfy every
\* supplied criterion (trade-name substring, generic-name substring, exact
\* category, price bounds, indications substring); a criterion that is
\* omitted or empty restricts nothing.
C10_Conjunctive ==
  (load_result = "ok" /\ AdvancedSearched)
  => response.out =
       SelectSeq(TableRecords(medication_processor.df.rows),
                 LAMBDA record : PassesAll(record, response.criteria))

\* The rows of the table a successful load has just read.
LoadedRows == medication_processor.df.rows

\* C11: after a successful load, for every trade name T of a row of the
\* table and every question that contains T as a substring in any letter
\* case, the medications identified in the question include a record whose
\* trade name is T.
C11_TradeNameFound ==
  (response.op = "answer_question" /\ load_result = "ok") =>
    \A i \in 1..Len(LoadedRows) :
       LET T == LoadedRows[i].Trade_Name
       IN  (T # << >> /\ Contains(Lower(T), Lower(response.question))) =>
             \E k \in 1..Len(response.analysis.medications) :
                response.analysis.medications[k].Trade_Name = T

\* The positions of the rows that have the name in column col, compared
\* without regard to letter case.
RowsNamed(col, name) ==
  { i \in 1..Len(LoadedRows) : Lower(LoadedRows[i][col]) = Lower(name) }

\* The record of the first row, in table order, among the positions S.
FirstRecord(S) ==
  LET i == CHOOSE x \in S : \A y \in S : x <= y
  IN  Medication(LoadedRows[i], i - 1)

\* C12: after a successful load, get_medication_by_name(name) compares
\* without regard to letter case, prefers a trade-name match to a
\* generic-name match, returns the first record in table order among the
\* records that share the name, and returns None when no record has the
\* name.
C12_ByNameFirstMatch ==
  (response.op = "get_medication_by_name" /\ load_result = "ok") =>
    response.out =
      IF RowsNamed("Trade_Name", response.name) # {}
      THEN << FirstRecord(RowsNamed("Trade_Name", response.name)) >>
      ELSE IF RowsNamed("Generic_Name", response.name) # {}
      THEN << FirstRecord(RowsNamed("Generic_Name", response.name)) >>
      ELSE << >>

\* The Category values of the loaded rows that are not blank.
NonBlankCategories ==
  { LoadedRows[i].Category : i \in 1..Len(LoadedRows) } \ { << >> }

\* C13: after a successful load the category listing is the sorted set of
\* the non-blank Category values of the loaded rows (no blank entry, no
\* duplicate, ascending), and the health check reports its length.
C13_CategoriesNonBlankSorted ==
  (response.op = "health_check" /\ load_result = "ok") =>
    /\ GetCategories(medication_processor) = SortedStrings(NonBlankCategories)
    /\ response.status = 200 =>
         response.categories_count = Cardinality(NonBlankCategories)

\* The question of a request body is missing, empty or only whitespace.
NoQuestion(body) ==
  \/ "question" \notin body.keys
  \/ body.null
  \/ Strip(body.text) = << >>

\* C14: while the service is available, POST /api/answer answers a body
\* whose question is missing, empty or whitespace-only with status 400 and
\* does not call answer_question; answer_question is only ever called with
\* a trimmed question that is not empty.
C14_EmptyQuestionRejected ==
  (response.op = "post_answer" /\ IsDataLoaded(medication_processor)) =>
    /\ NoQuestion(response.body) =>
         (response.status = 400 /\ response.called = << >>)
    /\ response.called # << >> =>
         /\ response.called[1] # << >>
         /\ Strip(response.called[1]) = response.called[1]

\* The loaded frame lacks a column.
ColumnMissing == medication_processor.df.missing # {}

\* C15: a dataset that lacks a column loads successfully, its records carry
\* a blank value for the absent field, and the operations that follow
\* complete with a result, none of them raises.
C15_MissingColumnTolerated ==
  /\ (response.op = "load_data" /\ Sources[response.source].readable
        /\ Sources[response.source].missing # {}) => response.ok
  /\ (ColumnMissing /\ load_result = "ok") =>
       /\ \A i \in 1..Len(LoadedRows) :
            LET found == DictLookup(medication_processor, i - 1)
            IN  /\ found # << >>
                /\ "Category" \in medication_processor.df.missing =>
                     found[1].Category = << >>
                /\ "Price" \in medication_processor.df.missing =>
                     found[1].Price = << >>
       /\ response.op \in {"get_medications", "advanced_search"} =>
            ~response.raised

\* C16: when the analysis found a medication, the answer is built from the
\* first one and the template follows the intent: side_effects gives the
\* side-effects answer, price the price sentence with the record's Price,
\* usage the usage answer with the record's trade name and indications, any
\* other intent the general-info template; "How much does Lipitor cost?"
\* gets the price sentence and "What is Panadol used for?" the usage answer.
C16_TemplateByIntent ==
  (response.op = "answer_question" /\ response.analysis.medications # << >>) =>
    LET first == response.analysis.medications[1]
        intent == response.analysis.intent
        out == response.out
    IN  /\ out.medication = << first >>
        /\ intent = "side_effects" =>
             /\ out.template \in {"side_effects", "side_effects_none"}
             /\ \A i \in 1..Len(first.Side_Effects) :
                  first.Side_Effects[i] \in RenderedValues(out)
        /\ intent = "price" =>
             /\ out.template = "price"
             /\ first.Price \in RenderedValues(out)
        /\ intent = "usage" =>
             /\ out.template = "usage"
             /\ first.Trade_Name \in RenderedValues(out)
             /\ first.Indications_for_Use \in RenderedValues(out)
        /\ intent \notin {"side_effects", "price", "usage"} =>
             out.template = "general_info"
        /\ response.question = <<"H","o","w"," ","m","u","c","h"," ","d","o","e","s"," ","L","i","p","i","t","o","r"," ","c","o","s","t","?">> =>
             out.template = "price"
        /\ response.question = <<"W","h","a","t"," ","i","s"," ","P","a","n","a","d","o","l"," ","u","s","e","d"," ","f","o","r","?">> =>
             out.template = "usage"

\* "How much does Lipitor cost?" on the table that has Lipitor at price 20
\* is answered with the price sentence holding 20, and "What is Panadol
\* used for?" has been asked of a table that has Panadol.
C16_Witness ==
  /\ response.op = "answer_question"
  /\ response.question = <<"H","o","w"," ","m","u","c","h"," ","d","o","e","s"," ","L","i","p","i","t","o","r"," ","c","o","s","t","?">>
  /\ response.analysis.intent = "price"
  /\ response.out.template = "price"
  /\ Len(response.out.medication) = 1
  /\ response.out.medication[1].Trade_Name = <<"L","i","p","i","t","o","r">>
  /\ <<"2","0">> \in RenderedValues(response.out)

\* The trimmed phrase the first matching template captures in its
\* ([\w\s]+) group, << >> when no template matches.
CapturedPhrase(question) ==
  LET text == PreprocessText(question)
      hits == { k \in 1..Len(ConditionTemplates) :
                  TemplateSearch(ConditionTemplates[k], text).found }
      k == CHOOSE x \in hits : \A y \in hits : x <= y
  IN  IF hits = {} THEN << >>
      ELSE << Strip(TemplateSearch(ConditionTemplates[k], text).last) >>

\* C17: the condition extracted from a question is the trimmed phrase the
\* first matching template captures, for each of the seven templates:
\* "headache" for "medications for headache", the phrase after the verb
\* (not the verb) for "what treats X", and None when no template matches.
C17_ConditionPhrase ==
  response.op = "answer_question" =>
    /\ response.analysis.condition = CapturedPhrase(response.question)
    /\ response.question = <<"m","e","d","i","c","a","t","i","o","n","s"," ","f","o","r"," ","h","e","a","d","a","c","h","e">> =>
         response.analysis.condition = << <<"h","e","a","d","a","c","h","e">> >>
    /\ response.question = <<"w","h","a","t"," ","t","r","e","a","t","s"," ","f","e","v","e","r">> =>
         response.analysis.condition = << <<"f","e","v","e","r">> >>
    /\ response.question = <<"h","e","l","l","o">> => response.analysis.condition = << >>

\* The number of patterns of the k-th label of the intent table that occur
\* in the processed question.
LabelCount(k, question) == MatchCount(IntentPatterns[k], PreprocessText(question))

\* The position of a label in the intent table.
LabelAt(intent) ==
  CHOOSE k \in 1..Len(IntentPatterns) : IntentPatterns[k].intent = intent

\* C18: the intent of a question is general_info exactly when no pattern of
\* any label matches; otherwise it is the label with the highest number of
\* matching patterns and, among the labels with that number, the one
\* declared first.
C18_IntentByCount ==
  response.op = "answer_question" =>
    LET q == response.question
        intent == response.analysis.intent
        labels == 1..Len(IntentPatterns)
    IN  /\ intent = "general_info" <=> \A k \in labels : LabelCount(k, q) = 0
        /\ intent # "general_info" =>
             /\ \E k \in labels : IntentPatterns[k].intent = intent
             /\ \A m \in labels : LabelCount(m, q) <= LabelCount(LabelAt(intent), q)
             /\ \A m \in labels :
                  m < LabelAt(intent) =>
                    LabelCount(m, q) < LabelCount(LabelAt(intent), q)

\* "How do I store medicine?" matches one pattern of availability and one
\* of storage and nothing else more often; it is classified availability,
\* the label declared first.
C18_Witness ==
  /\ response.op = "answer_question"
  /\ response.question = <<"H","o","w"," ","d","o"," ","I"," ","s","t","o","r","e"," ","m","e","d","i","c","i","n","e","?">>
  /\ LabelCount(LabelAt("availability"), response.question) = 1
  /\ LabelCount(LabelAt("storage"), response.question) = 1
  /\ response.analysis.intent = "availability"

\* A normalized text: lower-case, no punctuation character, no whitespace
\* at either end and no two whitespace characters in a row.
IsNormalized(s) ==
  /\ \A i \in 1..Len(s) : s[i] \notin UpperChars /\ s[i] \notin PunctuationChars
  /\ s # << >> => (s[1] \notin SpaceChars /\ s[Len(s)] \notin SpaceChars)
  /\ \A i \in 1..(Len(s) - 1) : ~(s[i] \in SpaceChars /\ s[i + 1] \in SpaceChars)

\* C19: the output of the text normalizer is lower-case, has no ASCII
\* punctuation character, no leading or trailing whitespace and no run of
\* more than one whitespace character, for every input and for both
\* normalizers of the code.
C19_NormalizedOutput ==
  response.op = "preprocess_text" =>
    /\ IsNormalized(response.qa)
    /\ IsNormalized(response.nlp)

\* C20: normalizing a normalized text changes nothing, for every input and
\* for both normalizers of the code.
C20_Idempotent ==
  response.op = "preprocess_text" =>
    /\ response.qa_twice = response.qa
    /\ response.nlp_twice = response.nlp

\* A text with upper-case letters, punctuation, a tab and a run of three
\* spaces has been normalized by both, each changed it, and a second pass
\* changed neither result.
C20_Witness ==
  /\ response.op = "preprocess_text"
  /\ response.text = <<" ","A"," ",",","\t","b"," "," "," ","c"," ">>
  /\ response.qa = <<"a"," ",","," ","b"," ","c">>
  /\ response.nlp = <<" ","a"," ","\t","b"," "," "," ","c"," ">>
  /\ response.qa_twice = response.qa
  /\ response.nlp_twice = response.nlp

\* C21: after a successful load, when the generic name of a row occurs in
\* the question, the medications identified include the record of that
\* row, for every row that has the generic name.
C21_SharedGenericAllFound ==
  (response.op = "answer_question" /\ load_result = "ok") =>
    \A i \in 1..Len(LoadedRows) :
       LET G == LoadedRows[i].Generic_Name
       IN  (G # << >> /\ Contains(Lower(G), PreprocessText(response.question))) =>
             \E k \in 1..Len(response.analysis.medications) :
                response.analysis.medications[k] = Medication(LoadedRows[i], i - 1)

\* The ids of the records discovered through the trade-name index and
\* through the generic-name index, each in the order of discovery.
TradeDiscovered(question) ==
  LET hits == NameHits(medication_processor, medication_processor.trade_name_index,
                       PreprocessText(question))
  IN  [j \in 1..Len(hits) |-> hits[j].id]

GenericDiscovered(question) ==
  LET hits == NameHits(medication_processor, medication_processor.generic_name_index,
                       PreprocessText(question))
  IN  [j \in 1..Len(hits) |-> hits[j].id]

\* The position at which an id occurs first in a sequence of ids.
FirstSeen(id, ids) == CHOOSE j \in 1..Len(ids) : ids[j] = id /\ \A h \in 1..(j - 1) : ids[h] # id

\* C22: the medications of an analysis hold no id twice, hold exactly the
\* records discovered, each at the place of its first discovery, with every
\* record discovered through a trade name before every record discovered
\* through a generic name only; so the first medication is a trade-name
\* match whenever a trade name matches.
C22_DiscoveryOrder ==
  response.op = "answer_question" =>
    LET meds == response.analysis.medications
        trade == TradeDiscovered(response.question)
        discovered == trade \o GenericDiscovered(response.question)
        byTrade(id) == \E j \in 1..Len(trade) : trade[j] = id
    IN  /\ \A a, b \in 1..Len(meds) : a # b => meds[a].id # meds[b].id
        /\ { meds[a].id : a \in 1..Len(meds) }
             = { discovered[j] : j \in 1..Len(discovered) }
        /\ \A a, b \in 1..Len(meds) :
             a < b => FirstSeen(meds[a].id, discovered) < FirstSeen(meds[b].id, discovered)
        /\ \A a, b \in 1..Len(meds) :
             (a < b /\ byTrade(meds[b].id)) => byTrade(meds[a].id)
        /\ trade # << >> => byTrade(meds[1].id)

\* "Panadol, paracetamol or atorvastatin" on the 3-row table: Panadol and
\* Adol are discovered through their trade names, Adol again through
\* paracetamol, Lipitor through atorvastatin only; the list is Panadol,
\* Adol, Lipitor.
C22_Witness ==
  /\ response.op = "answer_question"
  /\ response.question = <<"P","a","n","a","d","o","l",","," ","p","a","r","a","c","e","t","a","m","o","l"," ","o","r"," ","a","t","o","r","v","a","s","t","a","t","i","n">>
  /\ TradeDiscovered(response.question) = << <<"0">>, <<"2">> >>
  /\ GenericDiscovered(response.question) = << <<"2">>, <<"1">> >>
  /\ Len(response.analysis.medications) = 3
  /\ response.analysis.medications[1].Trade_Name = <<"P","a","n","a","d","o","l">>
  /\ response.analysis.medications[2].Trade_Name = <<"A","d","o","l">>
  /\ response.analysis.medications[3].Trade_Name = <<"L","i","p","i","t","o","r">>

\* A pattern counts for a text: a pattern of one word when it occurs as a
\* whole word, a pattern of several words when it occurs as a substring.
CountsFor(pattern, text) ==
  IF \E i \in 1..Len(pattern) : pattern[i] = " "
  THEN Contains(pattern, text)
  ELSE SearchWord(pattern, text)

\* The label chosen from those counts: the highest count, the label
\* declared first among equals, general_info when nothing counts.
IntentByCounts(question) ==
  LET text == PreprocessText(question)
      count(k) == Cardinality({ j \in 1..Len(IntentPatterns[k].patterns) :
                                  CountsFor(IntentPatterns[k].patterns[j], text) })
      matched == { k \in 1..Len(IntentPatterns) : count(k) > 0 }
  IN  IF matched = {} THEN "general_info"
      ELSE IntentPatterns[
             CHOOSE k \in matched :
               /\ \A m \in matched : count(m) <= count(k)
               /\ \A m \in matched : m < k => count(m) < count(k) ].intent

\* C23: in intent classification a one-word pattern counts only as a whole
\* word and a pattern of several words counts whenever it is a substring of
\* the text, so that "side effects of adol", which holds the pattern "side
\* effect", is classified side_effects.
C23_PhraseSubstring ==
  response.op = "answer_question" =>
    /\ response.analysis.intent = IntentByCounts(response.question)
    /\ response.question = <<"s","i","d","e"," ","e","f","f","e","c","t","s"," ","o","f"," ","a","d","o","l">> =>
         response.analysis.intent = "side_effects"

\* The question mentions a storage word together with medication or
\* medicine, in any letter case.
MentionsStorage(question) ==
  /\ \/ Contains(<<"s","t","o","r","e">>, Lower(question))
     \/ Contains(<<"k","e","e","p">>, Lower(question))
  /\ \/ Contains(<<"m","e","d","i","c","a","t","i","o","n">>, Lower(question))
     \/ Contains(<<"m","e","d","i","c","i","n","e">>, Lower(question))

\* C24: when the analysis found no medication and no condition, a question
\* that mentions "store" or "keep" together with "medication" or "medicine"
\* is answered with the storage guidance.
C24_StorageWords ==
  (response.op = "answer_question"
     /\ response.analysis.medications = << >>
     /\ response.analysis.condition \in { << >>, << << >> >> }
     /\ MentionsStorage(response.question)) =>
    response.out.template = "storage"

\* The records of the loaded table, in table order, whose category or
\* indications contain the condition, letter case aside.
MatchingRecords(condition) ==
  LET at == SelectSeq(Range(Len(LoadedRows)),
              LAMBDA i : \/ Contains(Lower(condition), Lower(LoadedRows[i].Category))
                         \/ Contains(Lower(condition),
                                     Lower(LoadedRows[i].Indications_for_Use)))
  IN  [j \in 1..Len(at) |-> Medication(LoadedRows[at[j]], at[j] - 1)]

\* C25: after a successful load, the general-info answer lists the first 5
\* side effects of its record, in order, and the condition answer the
\* first 5 records of the table that match, in table order; "N more" is
\* added exactly when there are more than 5, with N the total minus 5; the
\* condition answer is the not-found message exactly when no record of the
\* table matches.
C25_ListsFirstFive ==
  (response.op = "answer_question" /\ load_result = "ok") =>
    LET out == response.out
    IN  /\ out.template = "general_info" =>
             LET all == out.medication[1].Side_Effects
             IN  /\ out.effects = SubSeq(all, 1, IF Len(all) > 5 THEN 5 ELSE Len(all))
                 /\ out.more = IF Len(all) > 5 THEN Len(all) - 5 ELSE 0
        /\ out.template \in {"category", "category_not_found"} =>
             LET all == MatchingRecords(out.condition[1])
             IN  /\ out.template = "category_not_found" <=> all = << >>
                 /\ out.matches = SubSeq(all, 1, IF Len(all) > 5 THEN 5 ELSE Len(all))
                 /\ out.more = IF Len(all) > 5 THEN Len(all) - 5 ELSE 0

\* C26: a read (health, categories, statistics, search, advanced search,
\* lookup by id or by name, a question) leaves the processor as it was:
\* frame, medications_dict, both name indexes and the category list; so the
\* same read made again right after it returns the same result, and reads
\* made in any order between two loads return what each returns alone.
C26_ReadsKeepTable ==
  [][ (response = Idle /\ response' # Idle /\ response'.op # "load_data") =>
        /\ medication_processor' = medication_processor
        /\ response' = Replay(medication_processor', response') ]_vars

\* A lookup of "paracetamol" has found Adol through the generic-name
\* index, and the trade-name index still has no such key.
C26_Witness ==
  /\ response.op = "get_medication_by_name"
  /\ response.name = <<"p","a","r","a","c","e","t","a","m","o","l">>
  /\ response.out # << >>
  /\ response.out[1].Trade_Name = <<"A","d","o","l">>
  /\ ~DictHas(medication_processor.trade_name_index, <<"p","a","r","a","c","e","t","a","m","o","l">>)
  /\ DictHas(medication_processor.generic_name_index, <<"p","a","r","a","c","e","t","a","m","o","l">>)

\* Every record of a result resolves through get_medication_by_id to
\* itself.
IdsResolve(p, out) ==
  \A k \in 1..Len(out) : GetMedicationById(p, out[k].id) = << out[k] >>

\* No two records of a result carry the same id.
IdsDistinct(out) ==
  \A j, k \in 1..Len(out) : out[j].id = out[k].id => j = k

\* C27: in every reachable state, after any sequence of loads, the record
\* count that health and statistics report (get_medication_count) is the
\* number of records of the unfiltered, unlimited search, and every id a
\* search returns resolves through get_medication_by_id to a record with
\* that id, no id occurring twice in a result.
C27_CountIsSearchLength ==
  LET p == medication_processor
      all == GetMedications(p, << >>, << >>, NoLimit)
  IN  /\ GetMedicationCount(p) = Len(all)
      /\ response.op = "health_check" /\ response.status = 200
           => response.medications_count = Len(all)
      /\ response.op = "get_statistics" /\ response.out # << >>
           => response.out[1].total_medications = Len(all)
      /\ IdsResolve(p, all) /\ IdsDistinct(all)
      /\ response.op \in {"get_medications", "advanced_search"}
           => IdsResolve(p, response.out) /\ IdsDistinct(response.out)

\* The lowercased non-empty trade and generic names of the loaded rows.
TableNames ==
  { Lower(LoadedRows[i][col]) :
      i \in 1..Len(LoadedRows), col \in {"Trade_Name", "Generic_Name"} } \ { << >> }

Nameless(med) == med.Trade_Name = << >> /\ med.Generic_Name = << >>

\* C28: the empty string is never a key of the trade-name or generic-name
\* index; so a record whose trade name and generic name are both blank is
\* in the medications of no question, and a question that contains no
\* non-empty name of the table has an empty medications list.
C28_NoBlankNameKey ==
  /\ ~DictHas(medication_processor.trade_name_index, << >>)
  /\ ~DictHas(medication_processor.generic_name_index, << >>)
  /\ (Asked /\ load_result = "ok") =>
       /\ \A k \in 1..Len(response.analysis.medications) :
            ~Nameless(response.analysis.medications[k])
       /\ (\A name \in TableNames :
              ~Contains(name, PreprocessText(response.question)))
            => response.analysis.medications = << >>

\* C29: a load that fails after an earlier successful load leaves the
\* table as it was: the frame, medications_dict, both name indexes and
\* the category list are what they were before the call, so every read
\* returns what it returned before.
C29_FailedLoadKeepsTable ==
  [][ ( /\ load_result = "ok"
        /\ IsDataLoaded(medication_processor)
        /\ response'.op = "load_data"
        /\ ~response'.ok ) =>
        medication_processor' = medication_processor ]_vars

====
